---- MODULE Spec2Model ----
(***************************************************************************)
(* A model of the wizarding-rs front end: the lexer (src/src/lexer.rs),    *)
(* the precedence-climbing parser (src/src/parser.rs), the AST             *)
(* (src/src/ast.rs) and the code generator (src/src/codegen.rs).           *)
(*                                                                         *)
(* The token stream is the Vec<Token> the parser mutates: a stack whose    *)
(* LAST element is the next token of the source (lex reverses its          *)
(* matches).  Every parsing function takes the stack and returns a record  *)
(* holding the Result and the stack as the call left it.                   *)
(***************************************************************************)
EXTENDS Integers, Sequences, FiniteSets, TLC

VARIABLES text, tokens, input, ast, pc, ret, module, named_values, node

vars == <<text, tokens, input, ast, pc, ret, module, named_values, node>>

(* the state of Codegen, which the parser leaves alone *)
codegen_vars == <<module, named_values, node>>

---------------------------------------------------------------------------
(* lexer.rs: enum Token *)

Def == [type |-> "Def"]
Extern == [type |-> "Extern"]
Delimiter == [type |-> "Delimiter"]
OpenParen == [type |-> "OpenParen"]
CloseParen == [type |-> "CloseParen"]
Comma == [type |-> "Comma"]
Ident(s) == [type |-> "Ident", str |-> s]
Operator(s) == [type |-> "Operator", str |-> s]
Number(v) == [type |-> "Number", num |-> v]

---------------------------------------------------------------------------
(* ast.rs *)

Prototype(name, args) == [name |-> name, args |-> args]
Literal(v) == [type |-> "Literal", value |-> v]
Variable(n) == [type |-> "Variable", name |-> n]
Binary(op, l, r) == [type |-> "Binary", op |-> op, lhs |-> l, rhs |-> r]
Call(callee, args) == [type |-> "Call", callee |-> callee, args |-> args]
Function(proto, body) == [prototype |-> proto, body |-> body]
ASTExtern(proto) == [type |-> "Extern", prototype |-> proto]
ASTFunction(f) == [type |-> "Function", function |-> f]

---------------------------------------------------------------------------
(* parser.rs: enum ParserError, and Result values together with the stack  *)

InvalidToken(tok) == [type |-> "InvalidToken", tok |-> tok]
InvalidOperator(s) == [type |-> "InvalidOperator", op |-> s]
UnexpectedEOF == [type |-> "UnexpectedEOF"]

Ok(v, in) == [ok |-> TRUE, val |-> v, input |-> in]
Err(e, in) == [ok |-> FALSE, err |-> e, input |-> in]

(* Vec::last and Vec::pop on the token stack *)
last(in) == in[Len(in)]
pop(in) == IF Len(in) = 0 THEN in ELSE SubSeq(in, 1, Len(in) - 1)
is_last(in, tok) == Len(in) > 0 /\ last(in) = tok

(* ensure_next! as it would be with the None arm falling through *)
ensure_next_lenient(in, next) ==
    IF Len(in) = 0 THEN Ok(next, in)
    ELSE IF last(in) # next THEN Err(InvalidToken(last(in)), in)
    ELSE Ok(next, pop(in))

(* macro ensure_next!(input, next) *)
ensure_next(in, next) ==
    IF Len(in) = 0 THEN Err(UnexpectedEOF, in)
    ELSE IF last(in) # next THEN Err(InvalidToken(last(in)), in)
    ELSE Ok(next, pop(in))

(* Parser::default: the operator-precedence table *)
operator_precedence == ("*" :> 40) @@ ("/" :> 40) @@ ("+" :> 20) @@ ("-" :> 20)

RECURSIVE parse_expr(_), parse_primary(_), parse_identifier(_), parse_args(_, _)
RECURSIVE parse_nested(_), parse_rhs(_, _, _)
RECURSIVE parse_args_reversed(_, _), parse_rhs_unknown_ends(_, _, _)

(* Parser::parse_number *)
parse_number(in) ==
    IF Len(in) = 0 THEN Err(UnexpectedEOF, in)
    ELSE IF last(in).type = "Number" THEN Ok(Literal(last(in).num), pop(in))
    ELSE Err(InvalidToken(last(in)), pop(in))

(* The argument loop as it would be with each argument put in front *)
parse_args_reversed(in, args) ==
    LET r == parse_expr(in) IN
    IF ~r.ok THEN r
    ELSE LET args1 == <<r.val>> \o args IN
         IF ~is_last(r.input, Comma)
         THEN IF is_last(r.input, CloseParen) THEN Ok(args1, r.input)
              ELSE IF Len(r.input) > 0
                   THEN Err(InvalidToken(last(r.input)), r.input)
                   ELSE Err(UnexpectedEOF, r.input)
         ELSE parse_args_reversed(pop(r.input), args1)

(* Parser::parse_identifier, lines 79-91: the argument loop; in is the     *)
(* stack at the head of an iteration, args the arguments pushed so far.    *)
parse_args(in, args) ==
    LET r == parse_expr(in) IN
    IF ~r.ok THEN r
    ELSE LET args1 == Append(args, r.val) IN
         IF ~is_last(r.input, Comma)
         THEN IF is_last(r.input, CloseParen) THEN Ok(args1, r.input)
              ELSE IF Len(r.input) > 0
                   THEN Err(InvalidToken(last(r.input)), r.input)
                   ELSE Err(UnexpectedEOF, r.input)
         ELSE parse_args(pop(r.input), args1)

(* Parser::parse_identifier *)
parse_identifier(in) ==
    IF Len(in) = 0 THEN Err(UnexpectedEOF, in)
    ELSE IF last(in).type # "Ident" THEN Err(InvalidToken(last(in)), pop(in))
    ELSE LET ident == last(in).str
             in1 == pop(in) IN
         IF is_last(in1, OpenParen)
         THEN LET in2 == pop(in1)
                  r == IF ~is_last(in2, CloseParen)
                       THEN parse_args(in2, <<>>)
                       ELSE Ok(<<>>, in2) IN
              IF ~r.ok THEN r
              ELSE LET c == ensure_next(r.input, CloseParen) IN
                   IF ~c.ok THEN c ELSE Ok(Call(ident, r.val), c.input)
         ELSE Ok(Variable(ident), in1)

(* Parser::parse_nested *)
parse_nested(in) ==
    LET o == ensure_next(in, OpenParen) IN
    IF ~o.ok THEN o
    ELSE LET res == parse_expr(o.input) IN
         IF ~res.ok THEN res
         ELSE LET c == ensure_next(res.input, CloseParen) IN
              IF ~c.ok THEN c ELSE Ok(res.val, c.input)

(* parse_primary as it would be if it took the token it rejects *)
parse_primary_consumes(in) ==
    IF Len(in) = 0 THEN Err(UnexpectedEOF, in)
    ELSE CASE last(in).type = "Number" -> parse_number(in)
           [] last(in).type = "Ident" -> parse_identifier(in)
           [] last(in).type = "OpenParen" -> parse_nested(in)
           [] OTHER -> Err(InvalidToken(last(in)), pop(in))

(* Parser::parse_primary *)
parse_primary(in) ==
    IF Len(in) = 0 THEN Err(UnexpectedEOF, in)
    ELSE CASE last(in).type = "Number" -> parse_number(in)
           [] last(in).type = "Ident" -> parse_identifier(in)
           [] last(in).type = "OpenParen" -> parse_nested(in)
           [] OTHER -> Err(InvalidToken(last(in)), in)

(* Parser::parse_rhs, lines 137-146: the look at the operator that follows *)
(* the right operand r, which was parsed after an operator of binding      *)
(* power precedence.                                                       *)
absorb_suffix(r, precedence) ==
    IF Len(r.input) > 0 /\ last(r.input).type = "Operator"
    THEN LET op == last(r.input).str IN
         IF op \notin DOMAIN operator_precedence
         THEN Err(InvalidOperator(op), r.input)
         ELSE IF precedence < operator_precedence[op]
              THEN parse_rhs(r.input, precedence + 1, r.val)
              ELSE r
    ELSE r

(* Parser::parse_rhs, line 135: the right operand of a consumed operator *)
parse_operand(in) == parse_expr(in)

(* parse_rhs as it would be if an operator that is not in the table ended *)
(* the expression                                                        *)
parse_rhs_unknown_ends(in, expr_precedence, lhs) ==
    IF Len(in) > 0 /\ last(in).type = "Operator"
    THEN LET op == last(in).str IN
         IF op \notin DOMAIN operator_precedence
         THEN Ok(lhs, in)
         ELSE IF operator_precedence[op] >= expr_precedence
              THEN LET precedence == operator_precedence[op]
                       r == parse_operand(pop(in)) IN
                   IF ~r.ok THEN r
                   ELSE LET rhs == absorb_suffix(r, precedence) IN
                        IF ~rhs.ok THEN rhs
                        ELSE parse_rhs_unknown_ends(rhs.input, expr_precedence,
                                                    Binary(op, lhs, rhs.val))
              ELSE Ok(lhs, in)
    ELSE Ok(lhs, in)

(* Parser::parse_rhs: one call is the loop from its head with result = lhs; *)
(* going round the loop is the call on the new result.                      *)
parse_rhs(in, expr_precedence, lhs) ==
    IF Len(in) > 0 /\ last(in).type = "Operator"
    THEN LET op == last(in).str IN
         IF op \notin DOMAIN operator_precedence
         THEN Err(InvalidOperator(op), in)
         ELSE IF operator_precedence[op] >= expr_precedence
              THEN LET precedence == operator_precedence[op]
                       r == parse_operand(pop(in)) IN
                   IF ~r.ok THEN r
                   ELSE LET rhs == absorb_suffix(r, precedence) IN
                        IF ~rhs.ok THEN rhs
                        ELSE parse_rhs(rhs.input, expr_precedence,
                                       Binary(op, lhs, rhs.val))
              ELSE Ok(lhs, in)
    ELSE Ok(lhs, in)

(* Parser::parse_expr *)
parse_expr(in) ==
    LET lhs == parse_primary(in) IN
    IF ~lhs.ok THEN lhs ELSE parse_rhs(lhs.input, 0, lhs.val)

(* Parser::parse_prototype, lines 166-178: the parameter loop; in is the   *)
(* stack at the head of an iteration (before the pop of the while let).    *)
RECURSIVE parse_params(_, _)
parse_params(in, args) ==
    IF Len(in) = 0 THEN Ok(args, in)
    ELSE IF last(in).type # "Ident" THEN Ok(args, pop(in))
    ELSE LET args1 == Append(args, last(in).str)
             in1 == pop(in) IN
         IF ~is_last(in1, Comma)
         THEN IF is_last(in1, CloseParen) THEN Ok(args1, in1)
              ELSE IF Len(in1) > 0
                   THEN Err(InvalidToken(last(in1)), in1)
                   ELSE Err(UnexpectedEOF, in1)
         ELSE parse_params(pop(in1), args1)

(* Parser::parse_prototype *)
parse_prototype(in) ==
    IF Len(in) = 0 THEN Err(UnexpectedEOF, in)
    ELSE IF last(in).type # "Ident" THEN Err(InvalidToken(last(in)), pop(in))
    ELSE LET name == last(in).str
             o == ensure_next(pop(in), OpenParen) IN
         IF ~o.ok THEN o
         ELSE LET r == IF ~is_last(o.input, CloseParen)
                       THEN parse_params(o.input, <<>>)
                       ELSE Ok(<<>>, o.input) IN
              IF ~r.ok THEN r
              ELSE LET c == ensure_next(r.input, CloseParen) IN
                   IF ~c.ok THEN c ELSE Ok(Prototype(name, r.val), c.input)

(* Parser::parse_function *)
parse_function(in) ==
    LET proto == parse_prototype(pop(in)) IN
    IF ~proto.ok THEN proto
    ELSE LET body == parse_expr(proto.input) IN
         IF ~body.ok THEN body
         ELSE Ok(ASTFunction(Function(proto.val, body.val)), body.input)

(* Parser::parse_extern *)
parse_extern(in) ==
    LET proto == parse_prototype(pop(in)) IN
    IF ~proto.ok THEN proto ELSE Ok(ASTExtern(proto.val), proto.input)

(* Parser::parse_lambda *)
parse_lambda(in) ==
    LET body == parse_expr(in) IN
    IF ~body.ok THEN body
    ELSE Ok(ASTFunction(Function(Prototype("", <<>>), body.val)), body.input)

(* The Result a function hands back, without the stack *)
Returned(r) == IF r.ok THEN <<[ok |-> TRUE, val |-> r.val]>>
               ELSE <<[ok |-> FALSE, err |-> r.err]>>

---------------------------------------------------------------------------
(* Parser::parse as a state machine: pc = "parse" is the head of the while *)
(* loop, one action per arm of the match; an item that fails returns the   *)
(* error (the ? operator) and the local vector ast is dropped.             *)

(* The end of an item as it would be with the node put in front *)
Item_prepends(r) ==
    /\ input' = r.input
    /\ IF r.ok
       THEN /\ ast' = <<r.val>> \o ast
            /\ pc' = "parse"
            /\ ret' = ret
       ELSE /\ ast' = <<>>
            /\ pc' = "return"
            /\ ret' = Returned(r)
    /\ UNCHANGED <<text, tokens, codegen_vars>>

(* The end of an item as it would be with its tokens left on the stack *)
Item_keeps(r) ==
    /\ IF r.ok
       THEN /\ input' = input
            /\ ast' = Append(ast, r.val)
            /\ pc' = "parse"
            /\ ret' = ret
       ELSE /\ input' = r.input
            /\ ast' = <<>>
            /\ pc' = "return"
            /\ ret' = Returned(r)
    /\ UNCHANGED <<text, tokens, codegen_vars>>

Item(r) ==
    /\ input' = r.input
    /\ IF r.ok
       THEN /\ ast' = Append(ast, r.val)
            /\ pc' = "parse"
            /\ ret' = ret
       ELSE /\ ast' = <<>>
            /\ pc' = "return"
            /\ ret' = Returned(r)
    /\ UNCHANGED <<text, tokens, codegen_vars>>

ParseFunction ==
    /\ pc = "parse" /\ is_last(input, Def)
    /\ Item(parse_function(input))

ParseExtern ==
    /\ pc = "parse" /\ is_last(input, Extern)
    /\ Item(parse_extern(input))

SkipDelimiter ==
    /\ pc = "parse" /\ is_last(input, Delimiter)
    /\ input' = pop(input)
    /\ UNCHANGED <<text, tokens, ast, pc, ret, codegen_vars>>

ParseLambda ==
    /\ pc = "parse" /\ Len(input) > 0
    /\ last(input) \notin {Def, Extern, Delimiter}
    /\ Item(parse_lambda(input))

ParseReturn ==
    /\ pc = "parse" /\ Len(input) = 0
    /\ ret' = <<[ok |-> TRUE, val |-> ast]>>
    /\ pc' = "return"
    /\ UNCHANGED <<text, tokens, input, ast, codegen_vars>>

---------------------------------------------------------------------------
(* lexer.rs.  A text is a sequence of characters, each a string: a         *)
(* printable ASCII character, tab, line feed, form feed and carriage       *)
(* return stand for themselves, every other character (and the grave       *)
(* accent, which a string here cannot hold) is written by its code point,  *)
(* as the alchemical symbols of TOKEN_RE are.                              *)

SYM_EXTERN == "U+1F739"
SYM_DEF == "U+1F719"
SYM_OPPAR == "U+1F704"
SYM_CLPAR == "U+1F702"
SYM_COMMA == "U+1F70C"

DigitValue == ("0" :> 0) @@ ("1" :> 1) @@ ("2" :> 2) @@ ("3" :> 3) @@ ("4" :> 4)
              @@ ("5" :> 5) @@ ("6" :> 6) @@ ("7" :> 7) @@ ("8" :> 8) @@ ("9" :> 9)

(* The character classes of the regex crate, which are the Unicode ones:   *)
(* \p{Alphabetic}, \d (Nd), \w (Alphabetic, Nd, connector punctuation; no  *)
(* mark is among the characters here), the complement of \S (White_Space)  *)
(* and what \S matches and no alternative before it does.  The characters  *)
(* classified are Basic Latin, Latin-1 Supplement, the Arabic-Indic digits *)
(* and the five symbols; token_match has no value on any other.            *)
AsciiAlphabetic == {"A", "B", "C", "D", "E", "F", "G", "H", "I", "J", "K",
                    "L", "M", "N", "O", "P", "Q", "R", "S", "T", "U", "V",
                    "W", "X", "Y", "Z", "a", "b", "c", "d", "e", "f", "g",
                    "h", "i", "j", "k", "l", "m", "n", "o", "p", "q", "r",
                    "s", "t", "u", "v", "w", "x", "y", "z"}

Latin1Alphabetic == {"U+00AA", "U+00B5", "U+00BA", "U+00C0", "U+00C1",
                     "U+00C2", "U+00C3", "U+00C4", "U+00C5", "U+00C6",
                     "U+00C7", "U+00C8", "U+00C9", "U+00CA", "U+00CB",
                     "U+00CC", "U+00CD", "U+00CE", "U+00CF", "U+00D0",
                     "U+00D1", "U+00D2", "U+00D3", "U+00D4", "U+00D5",
                     "U+00D6", "U+00D8", "U+00D9", "U+00DA", "U+00DB",
                     "U+00DC", "U+00DD", "U+00DE", "U+00DF", "U+00E0",
                     "U+00E1", "U+00E2", "U+00E3", "U+00E4", "U+00E5",
                     "U+00E6", "U+00E7", "U+00E8", "U+00E9", "U+00EA",
                     "U+00EB", "U+00EC", "U+00ED", "U+00EE", "U+00EF",
                     "U+00F0", "U+00F1", "U+00F2", "U+00F3", "U+00F4",
                     "U+00F5", "U+00F6", "U+00F8", "U+00F9", "U+00FA",
                     "U+00FB", "U+00FC", "U+00FD", "U+00FE", "U+00FF"}

ArabicIndicDigit == {"U+0660", "U+0661", "U+0662", "U+0663", "U+0664",
                     "U+0665", "U+0666", "U+0667", "U+0668", "U+0669"}

Whitespace == {"\t", "\n", "U+000B", "\f", "\r", " ", "U+0085", "U+00A0"}

Symbol == {"U+0000", "U+0001", "U+0002", "U+0003", "U+0004", "U+0005",
           "U+0006", "U+0007", "U+0008", "U+000E", "U+000F", "U+0010",
           "U+0011", "U+0012", "U+0013", "U+0014", "U+0015", "U+0016",
           "U+0017", "U+0018", "U+0019", "U+001A", "U+001B", "U+001C",
           "U+001D", "U+001E", "U+001F", "!", "\"", "#", "$", "%", "&", "'",
           "(", ")", "*", "+", ",", "-", ".", "/", ":", "<", "=", ">", "?",
           "@", "[", "\\", "]", "^", "_", "U+0060", "{", "|", "}", "~", "U+007F",
           "U+0080", "U+0081", "U+0082", "U+0083", "U+0084", "U+0086",
           "U+0087", "U+0088", "U+0089", "U+008A", "U+008B", "U+008C",
           "U+008D", "U+008E", "U+008F", "U+0090", "U+0091", "U+0092",
           "U+0093", "U+0094", "U+0095", "U+0096", "U+0097", "U+0098",
           "U+0099", "U+009A", "U+009B", "U+009C", "U+009D", "U+009E",
           "U+009F", "U+00A1", "U+00A2", "U+00A3", "U+00A4", "U+00A5",
           "U+00A6", "U+00A7", "U+00A8", "U+00A9", "U+00AB", "U+00AC",
           "U+00AD", "U+00AE", "U+00AF", "U+00B0", "U+00B1", "U+00B2",
           "U+00B3", "U+00B4", "U+00B6", "U+00B7", "U+00B8", "U+00B9",
           "U+00BB", "U+00BC", "U+00BD", "U+00BE", "U+00BF", "U+00D7",
           "U+00F7"}

Alphabetic == AsciiAlphabetic \cup Latin1Alphabetic
AsciiDigit == DOMAIN DigitValue
Digit == AsciiDigit \cup ArabicIndicDigit
Word == Alphabetic \cup Digit \cup {"_"}

(* The characters classified here; of any other character nothing is said. *)
Classified ==
    Alphabetic \cup Digit \cup Whitespace \cup Symbol
        \cup {";", SYM_EXTERN, SYM_DEF, SYM_OPPAR, SYM_CLPAR, SYM_COMMA}

(* IGNORE_RE and preprocess: (?m)#.*$ replaced by nothing: from a # up to, *)
(* and not including, the line feed that ends its line.                    *)
RECURSIVE strip(_, _, _)
strip(s, i, in_comment) ==
    IF i > Len(s) THEN <<>>
    ELSE IF s[i] = "\n" THEN <<s[i]>> \o strip(s, i + 1, FALSE)
    ELSE IF in_comment \/ s[i] = "#" THEN strip(s, i + 1, TRUE)
    ELSE <<s[i]>> \o strip(s, i + 1, FALSE)

preprocess(s) == strip(s, 1, FALSE)

(* The length of the longest run of characters of class from position i;  *)
(* it has no value when the run meets a character that is not classified.  *)
RECURSIVE run(_, _, _)
run(s, i, class) ==
    IF i > Len(s) THEN 0
    ELSE CASE s[i] \in class -> 1 + run(s, i + 1, class)
           [] s[i] \in Classified \ class -> 0

(* \d+\.?\d* at position i, which holds a digit *)
number_len(s, i) ==
    LET n == run(s, i, Digit)
        dot == IF i + n <= Len(s) /\ s[i + n] = "." THEN 1 ELSE 0 IN
    n + dot + run(s, i + n + dot, Digit)

(* TOKEN_RE at position i: the capture group that takes part in the match *)
(* and the length of the match; the alternatives are tried in the order    *)
(* they are written, each one greedy.  No alternative matches whitespace.  *)
token_match(s, i) ==
    CASE s[i] \in Alphabetic -> [group |-> "ident", len |-> 1 + run(s, i + 1, Word)]
      [] s[i] = SYM_EXTERN -> [group |-> "extern", len |-> 1]
      [] s[i] = SYM_DEF -> [group |-> "def", len |-> 1]
      [] s[i] \in Digit -> [group |-> "number", len |-> number_len(s, i)]
      [] s[i] = ";" -> [group |-> "delimiter", len |-> 1]
      [] s[i] = SYM_OPPAR -> [group |-> "oppar", len |-> 1]
      [] s[i] = SYM_CLPAR -> [group |-> "clpar", len |-> 1]
      [] s[i] = SYM_COMMA -> [group |-> "comma", len |-> 1]
      [] s[i] \in Symbol -> [group |-> "operator", len |-> 1]
      [] s[i] \in Whitespace -> [group |-> "none", len |-> 0]

(* Match::as_str().to_string(): the characters of a lexeme as one string *)
RECURSIVE as_str(_)
as_str(cs) == IF Len(cs) = 0 THEN "" ELSE Head(cs) \o as_str(Tail(cs))

(* Vec::reverse *)
reverse(v) == [i \in 1..Len(v) |-> v[Len(v) + 1 - i]]

(* f64.  A natural number of any size is the sequence of its decimal       *)
(* digits, the least significant first, with no zero at the top; <<>> is   *)
(* 0.  An f64 that is finite is sig * 2^exp with sig odd, written by its   *)
(* decimal digits, the most significant first (0.0 has no digit).          *)

(* digit i of a, 0 above its top and below its bottom *)
digit(a, i) == IF i >= 1 /\ i <= Len(a) THEN a[i] ELSE 0

(* the digits a, of which the top one may be 0, as a natural number *)
top(a) ==
    IF Len(a) > 0 /\ a[Len(a)] = 0 THEN SubSeq(a, 1, Len(a) - 1)
    ELSE SubSeq(a, 1, Len(a))

(* 2 * a, 5 * a and a \div 2: the carry into a digit is known from the     *)
(* digit below (above, for the half) alone.                                *)
twice(a) ==
    top([i \in 1..Len(a) + 1 |->
            (2 * digit(a, i) + (IF digit(a, i - 1) >= 5 THEN 1 ELSE 0)) % 10])
times5(a) ==
    top([i \in 1..Len(a) + 1 |-> (5 * digit(a, i) + digit(a, i - 1) \div 2) % 10])
half(a) ==
    top([i \in 1..Len(a) |-> digit(a, i) \div 2 + 5 * (digit(a, i + 1) % 2)])
odd(a) == digit(a, 1) % 2 = 1

(* 2 * a + bit *)
shift_in(a, bit) ==
    IF bit = 0 THEN twice(a)
    ELSE IF Len(a) = 0 THEN <<1>>
    ELSE [twice(a) EXCEPT ![1] = @ + 1]

(* the digits a without the zeros at the top *)
trim(a) ==
    SubSeq(a, 1, CHOOSE n \in 0..Len(a) :
                     /\ n = 0 \/ a[n] # 0
                     /\ \A j \in n + 1..Len(a) : a[j] = 0)

(* a + 1: the carry reaches a digit when every digit below is 9 *)
succ(a) ==
    top([i \in 1..Len(a) + 1 |->
            (digit(a, i) + (IF \A j \in 1..i - 1 : a[j] = 9 THEN 1 ELSE 0)) % 10])

(* Digits lo..hi of a against those of b: -1 below, 0 equal, 1 above; the  *)
(* upper half decides unless it is equal.                                  *)
RECURSIVE compare(_, _, _, _)
compare(a, b, lo, hi) ==
    IF lo > hi THEN 0
    ELSE IF lo = hi
    THEN (IF digit(a, lo) < digit(b, lo) THEN -1
          ELSE IF digit(a, lo) > digit(b, lo) THEN 1 ELSE 0)
    ELSE LET mid == (lo + hi) \div 2
             upper == compare(a, b, mid + 1, hi) IN
         IF upper # 0 THEN upper ELSE compare(a, b, lo, mid)

(* a < b *)
less(a, b) ==
    IF Len(a) # Len(b) THEN Len(a) < Len(b) ELSE compare(a, b, 1, Len(a)) < 0

(* a - b, for a >= b: digit i borrows when a is below b on the digits      *)
(* under it.                                                               *)
minus(a, b) ==
    trim([i \in 1..Len(a) |->
             (a[i] - digit(b, i)
                   - (IF compare(a, b, 1, i - 1) < 0 THEN 1 ELSE 0)) % 10])

(* a * 2^n and a * 5^n *)
RECURSIVE doubled(_, _), fivefold(_, _)
doubled(a, n) ==
    IF n = 0 \/ Len(a) = 0 THEN a
    ELSE IF n = 1 THEN twice(a)
    ELSE doubled(doubled(a, n \div 2), n - n \div 2)

fivefold(a, n) ==
    IF n = 0 \/ Len(a) = 0 THEN a
    ELSE IF n = 1 THEN times5(a)
    ELSE fivefold(fivefold(a, n \div 2), n - n \div 2)

(* the natural number an Int is *)
RECURSIVE nat(_)
nat(m) == IF m = 0 THEN <<>> ELSE <<m % 10>> \o nat(m \div 10)

Zero == [sig |-> <<>>, exp |-> 0]
Infinity == [inf |-> TRUE]

(* One step, and steps steps, of taking the factors two out of q * 2^e *)
reduce(v) ==
    IF Len(v.q) > 0 /\ ~odd(v.q) THEN [q |-> half(v.q), e |-> v.e + 1] ELSE v

RECURSIVE reduced(_, _)
reduced(v, steps) ==
    IF steps = 0 \/ odd(v.q) THEN v
    ELSE IF steps = 1 THEN reduce(v)
    ELSE reduced(reduced(v, steps \div 2), steps - steps \div 2)

(* q * 2^e, for q <= 2^53 *)
finite(q, e) ==
    LET v == reduced([q |-> q, e |-> e], 53) IN
    IF Len(v.q) = 0 THEN Zero ELSE [sig |-> reverse(v.q), exp |-> v.e]

(* One step, and steps steps, of bringing n / d * 2^-k, where d53 is       *)
(* d * 2^53, to 2^52 <= n / d < 2^53, or to k = 1074 with n / d below 2^52 *)
(* (a subnormal).                                                          *)
large(v) == v.k > 1074 \/ ~less(v.n, v.d53)
small(v) == v.k < 1074 /\ less(twice(v.n), v.d53)

scale(v) ==
    IF large(v) THEN [n |-> v.n, d53 |-> twice(v.d53), k |-> v.k - 1]
    ELSE IF small(v) THEN [n |-> twice(v.n), d53 |-> v.d53, k |-> v.k + 1]
    ELSE v

RECURSIVE scaled(_, _)
scaled(v, steps) ==
    IF steps = 0 \/ (~large(v) /\ ~small(v)) THEN v
    ELSE IF steps = 1 THEN scale(v)
    ELSE scaled(scaled(v, steps \div 2), steps - steps \div 2)

(* One step, and steps steps, of the division of n by t bit by bit, for    *)
(* n < 2 * t: q the bits so far, n what is left (and nothing is left to    *)
(* do once t is 0).                                                        *)
divide(v) ==
    IF less(v.n, v.t) THEN [n |-> v.n, t |-> half(v.t), q |-> shift_in(v.q, 0)]
    ELSE [n |-> minus(v.n, v.t), t |-> half(v.t), q |-> shift_in(v.q, 1)]

RECURSIVE divided(_, _)
divided(v, steps) ==
    IF steps = 0 \/ Len(v.t) = 0 THEN v
    ELSE IF steps = 1 THEN divide(v)
    ELSE divided(divided(v, steps \div 2), steps - steps \div 2)

(* q * 2^e for q <= 2^53, which beyond the largest f64 is infinity *)
packed(q, e) ==
    IF e > 971 \/ (e = 971 /\ q = doubled(<<1>>, 53)) THEN Infinity ELSE finite(q, e)

(* The 54 bits qr.q of a quotient as 53: the last bit and what the         *)
(* division left decide the rounding, a tie going to the even one.         *)
round_up(qr) == odd(qr.q) /\ (Len(qr.n) > 0 \/ odd(half(qr.q)))
rounded_bits(qr) == IF round_up(qr) THEN succ(half(qr.q)) ELSE half(qr.q)

(* the f64 nearest to at.n / at.d53 * 2^(53 - at.k), scaled as above *)
rounded_at(at) ==
    packed(rounded_bits(divided([n |-> twice(at.n), t |-> at.d53, q |-> <<>>], 54)),
           -at.k)

(* The f64 nearest to n / d * 2^-k, ties to the even one, for d > 0: it is *)
(* scaled (the steps given are more than it takes), then 2 * n is divided  *)
(* by d to 54 bits.                                                        *)
rounded(n, d, k) ==
    IF Len(n) = 0 THEN Zero
    ELSE rounded_at(scaled([n |-> n, d53 |-> doubled(d, 53), k |-> k],
                           4 * (Len(n) + Len(d)) + 54
                               + (IF k > 1074 THEN k - 1074 ELSE 0)))

(* The f64 nearest to n / 10^s = n / 5^s * 2^-s.  An integer below 2^53 is *)
(* an f64 as it is.                                                        *)
nearest(n, s) ==
    IF s = 0 /\ less(n, doubled(<<1>>, 53)) THEN finite(n, 0)
    ELSE rounded(n, fivefold(<<1>>, s), s)

(* the f64 of the decimal m / 10^s *)
F64(m, s) == nearest(nat(m), s)

(* f64 arithmetic, as LLVM does it when it folds an operation on two       *)
(* constants (APFloat, round to nearest, ties to even): fadd, fsub, fmul   *)
(* and fdiv give the result before it is rounded.  A negative value is     *)
(* [neg |-> its magnitude], -0.0 among them; the one NaN these operations  *)
(* give rise to is NaN.                                                    *)
NaN == [nan |-> TRUE]
is_nan(v) == "nan" \in DOMAIN v
is_negative(v) == "neg" \in DOMAIN v
magnitude(v) == IF is_negative(v) THEN v.neg ELSE v
is_infinite(v) == ~is_nan(v) /\ "inf" \in DOMAIN magnitude(v)
is_zero(v) == ~is_nan(v) /\ magnitude(v) = Zero
signed(neg, mag) == IF neg THEN [neg |-> mag] ELSE mag
opposite(v) == IF is_nan(v) THEN v ELSE signed(~is_negative(v), magnitude(v))

(* the significand of a finite value, as a natural number *)
significand(v) == SubSeq(reverse(magnitude(v).sig), 1, Len(magnitude(v).sig))

(* a + b: a carry reaches digit i from a digit below whose sum is 10 or    *)
(* more, through digits whose sum is 9.                                    *)
plus(a, b) ==
    LET sum(i) == digit(a, i) + digit(b, i)
        carry(i) == \E j \in 1..i - 1 :
                        sum(j) >= 10 /\ \A k \in j + 1..i - 1 : sum(k) = 9
        n == IF Len(a) > Len(b) THEN Len(a) ELSE Len(b) IN
    top([i \in 1..n + 1 |-> (sum(i) + (IF carry(i) THEN 1 ELSE 0)) % 10])

(* a times the digit c *)
digit_times(a, c) ==
    CASE c = 0 -> <<>>
      [] c = 1 -> a
      [] c = 2 -> twice(a)
      [] c = 3 -> plus(twice(a), a)
      [] c = 4 -> doubled(a, 2)
      [] c = 5 -> times5(a)
      [] c = 6 -> plus(times5(a), a)
      [] c = 7 -> plus(times5(a), twice(a))
      [] c = 8 -> doubled(a, 3)
      [] c = 9 -> plus(times5(a), doubled(a, 2))

(* a * b: a times the lower digits of b, plus a times the upper ones *)
RECURSIVE times(_, _)
times(a, b) ==
    IF Len(a) = 0 \/ Len(b) = 0 THEN <<>>
    ELSE IF Len(b) = 1 THEN digit_times(a, b[1])
    ELSE LET h == Len(b) \div 2
             low == times(a, trim(SubSeq(b, 1, h)))
             high == times(a, SubSeq(b, h + 1, Len(b))) IN
         plus(low, [i \in 1..h |-> 0] \o high)

(* The result of an operation before it is rounded: a value that needs no *)
(* rounding, or the sign and the magnitude n / d * 2^-k.                   *)
exactly(v) == [value |-> v]
ratio(neg, n, d, k) == [neg |-> neg, n |-> n, d |-> d, k |-> k]
result(r) ==
    IF "value" \in DOMAIN r THEN r.value ELSE signed(r.neg, rounded(r.n, r.d, r.k))

(* nx * 2^e with the sign negx plus ny * 2^e with the sign negy; a sum     *)
(* that is exactly zero is +0.0                                            *)
sum(negx, nx, negy, ny, e) ==
    IF negx = negy THEN ratio(negx, plus(nx, ny), <<1>>, -e)
    ELSE IF nx = ny THEN exactly(Zero)
    ELSE IF less(nx, ny) THEN ratio(negy, minus(ny, nx), <<1>>, -e)
    ELSE ratio(negx, minus(nx, ny), <<1>>, -e)

(* x + y for finite x and y that are not zero, e the lesser exponent *)
aligned(x, y, e) ==
    sum(is_negative(x), doubled(significand(x), magnitude(x).exp - e),
        is_negative(y), doubled(significand(y), magnitude(y).exp - e), e)

fadd(x, y) ==
    IF is_nan(x) \/ is_nan(y) THEN exactly(NaN)
    ELSE IF is_infinite(x) /\ is_infinite(y)
    THEN exactly(IF is_negative(x) = is_negative(y) THEN x ELSE NaN)
    ELSE IF is_infinite(x) THEN exactly(x)
    ELSE IF is_infinite(y) THEN exactly(y)
    ELSE IF is_zero(x) /\ is_zero(y)
    THEN exactly(signed(is_negative(x) /\ is_negative(y), Zero))
    ELSE IF is_zero(x) THEN exactly(y)
    ELSE IF is_zero(y) THEN exactly(x)
    ELSE aligned(x, y, IF magnitude(x).exp < magnitude(y).exp
                       THEN magnitude(x).exp ELSE magnitude(y).exp)

fsub(x, y) == fadd(x, opposite(y))

fmul(x, y) ==
    IF is_nan(x) \/ is_nan(y) THEN exactly(NaN)
    ELSE IF (is_infinite(x) /\ is_zero(y)) \/ (is_zero(x) /\ is_infinite(y))
    THEN exactly(NaN)
    ELSE IF is_infinite(x) \/ is_infinite(y)
    THEN exactly(signed(is_negative(x) # is_negative(y), Infinity))
    ELSE IF is_zero(x) \/ is_zero(y)
    THEN exactly(signed(is_negative(x) # is_negative(y), Zero))
    ELSE ratio(is_negative(x) # is_negative(y), times(significand(x), significand(y)),
               <<1>>, -(magnitude(x).exp + magnitude(y).exp))

fdiv(x, y) ==
    IF is_nan(x) \/ is_nan(y) THEN exactly(NaN)
    ELSE IF (is_infinite(x) /\ is_infinite(y)) \/ (is_zero(x) /\ is_zero(y))
    THEN exactly(NaN)
    ELSE IF is_infinite(x) \/ is_zero(y)
    THEN exactly(signed(is_negative(x) # is_negative(y), Infinity))
    ELSE IF is_infinite(y) \/ is_zero(x)
    THEN exactly(signed(is_negative(x) # is_negative(y), Zero))
    ELSE ratio(is_negative(x) # is_negative(y), significand(x), significand(y),
               magnitude(y).exp - magnitude(x).exp)

(* str::parse::<f64> on a lexeme of the number group: ASCII digits, then   *)
(* maybe a point and more ASCII digits, read as the nearest f64; any other *)
(* digit is an error.                                                      *)
parse_f64(cs) ==
    IF \E i \in 1..Len(cs) : cs[i] \notin AsciiDigit \cup {"."} THEN [ok |-> FALSE]
    ELSE LET ds == SelectSeq(cs, LAMBDA c : c \in AsciiDigit)
             points == {i \in 1..Len(cs) : cs[i] = "."}
             frac == IF points = {} THEN 0
                     ELSE Len(cs) - (CHOOSE i \in points : TRUE) IN
         [ok |-> TRUE,
          val |-> nearest(trim(reverse([i \in 1..Len(ds) |-> DigitValue[ds[i]]])), frac)]

(* lex, lines 53-73: the token of one capture *)
token_of(m, lexeme) ==
    CASE m.group = "ident" -> Ident(as_str(lexeme))
      [] m.group = "extern" -> Extern
      [] m.group = "def" -> Def
      [] m.group = "number" -> Number(parse_f64(lexeme).val)
      [] m.group = "operator" -> Operator(as_str(lexeme))
      [] m.group = "comma" -> Comma
      [] m.group = "oppar" -> OpenParen
      [] m.group = "clpar" -> CloseParen
      [] m.group = "delimiter" -> Delimiter

(* lex, lines 52-76: captures_iter, the matches from left to right; a      *)
(* number lexeme that parse rejects panics (expect) and ends the loop.     *)
RECURSIVE captures(_, _)
captures(s, i) ==
    IF i > Len(s) THEN [ok |-> TRUE, val |-> <<>>]
    ELSE LET m == token_match(s, i)
             lexeme == SubSeq(s, i, i + m.len - 1) IN
         IF m.group = "none" THEN captures(s, i + 1)
         ELSE IF m.group = "number" /\ ~parse_f64(lexeme).ok
         THEN [ok |-> FALSE, panic |-> "failed to parse number!"]
         ELSE LET rest == captures(s, i + m.len) IN
              IF ~rest.ok THEN rest
              ELSE [ok |-> TRUE, val |-> <<token_of(m, lexeme)>> \o rest.val]

(* lexer::lex: the stack, or the panic *)
lex(s) ==
    LET res == captures(preprocess(s), 1) IN
    IF res.ok THEN [ok |-> TRUE, val |-> reverse(res.val)] ELSE res

---------------------------------------------------------------------------
(* The grammar the parser is specified against, read left to right:        *)
(*   program   := { item }                                                 *)
(*   item      := "def" prototype expr | "extern" prototype | ";" | expr   *)
(*   prototype := ident "(" [ ident { "," ident } ] ")"                    *)
(*   expr      := primary { operator expr }                                *)
(*   primary   := number | ident [ "(" [ expr {"," expr} ] ")" ]           *)
(*              | "(" expr ")"                                             *)
(* A position in it is a mode, the open parentheses (each the "nested" of  *)
(* a parenthesised expression or the "call" of an argument list) and, in   *)
(* a prototype, the keyword that opened the item.  This is the yardstick   *)
(* the properties below measure the parser with; the parser does not use   *)
(* it.                                                                     *)

GPos(mode, open, item) == [mode |-> mode, open |-> open, item |-> item]
GBad(error) == [mode |-> "violation", error |-> error]

(* The position after an operand is complete and the token tok is next *)
GAfterOperand(g, tok) ==
    IF tok.type = "Operator"
    THEN IF tok.str \in DOMAIN operator_precedence
         THEN GPos("operand", g.open, g.item)
         ELSE GBad(InvalidOperator(tok.str))
    ELSE IF Len(g.open) = 0 THEN GPos("end", g.open, g.item)
    ELSE IF tok = CloseParen
         THEN GPos("after_operand", SubSeq(g.open, 1, Len(g.open) - 1), g.item)
    ELSE IF tok = Comma /\ g.open[Len(g.open)] = "call"
         THEN GPos("operand", g.open, g.item)
    ELSE GBad(InvalidToken(tok))

(* The position where an operand must start and the token tok is next *)
GOperand(g, tok) ==
    CASE tok.type = "Number" -> GPos("after_operand", g.open, g.item)
      [] tok.type = "Ident" -> GPos("after_ident", g.open, g.item)
      [] tok = OpenParen -> GPos("operand", Append(g.open, "nested"), g.item)
      [] OTHER -> GBad(InvalidToken(tok))

(* The start of an item of a program *)
GItem(g, tok) ==
    CASE tok = Def -> GPos("proto_name", <<>>, "def")
      [] tok = Extern -> GPos("proto_name", <<>>, "extern")
      [] tok = Delimiter -> GPos("top", <<>>, "")
      [] OTHER -> GOperand(GPos("operand", <<>>, ""), tok)

(* One token read at position g.  In mode "end" an expression, or an item  *)
(* that ends with one, is complete and tok is the first token after it.    *)
RECURSIVE GStep(_, _, _)
GStep(g, tok, unit) ==
    CASE g.mode = "top" -> GItem(g, tok)
      [] g.mode = "operand" -> GOperand(g, tok)
      [] g.mode = "after_ident" ->
            IF tok = OpenParen THEN GPos("call_start", Append(g.open, "call"), g.item)
            ELSE GStep(GPos("after_operand", g.open, g.item), tok, unit)
      [] g.mode = "call_start" ->
            IF tok = CloseParen
            THEN GPos("after_operand", SubSeq(g.open, 1, Len(g.open) - 1), g.item)
            ELSE GOperand(g, tok)
      [] g.mode = "after_operand" ->
            LET n == GAfterOperand(g, tok) IN
            IF n.mode = "end" /\ unit = "program" THEN GItem(g, tok) ELSE n
      [] g.mode = "proto_name" ->
            IF tok.type = "Ident" THEN GPos("proto_open", <<>>, g.item)
            ELSE GBad(InvalidToken(tok))
      [] g.mode = "proto_open" ->
            IF tok = OpenParen THEN GPos("param_first", <<>>, g.item)
            ELSE GBad(InvalidToken(tok))
      [] g.mode \in {"param_first", "param_after"} /\ tok = CloseParen ->
            IF g.item = "def" THEN GPos("operand", <<>>, "") ELSE GPos("top", <<>>, "")
      [] g.mode \in {"param_first", "param_next"} ->
            IF tok.type = "Ident" THEN GPos("param_after", <<>>, g.item)
            ELSE GBad(InvalidToken(tok))
      [] g.mode = "param_after" ->
            IF tok = Comma THEN GPos("param_next", <<>>, g.item)
            ELSE GBad(InvalidToken(tok))
      [] g.mode = "end" -> g

(* The stream s read from position g at token i: the position at the first *)
(* token the grammar does not allow (at, the index of that token) or at    *)
(* the end of the stream (at = Len(s) + 1).                                *)
RECURSIVE GScan(_, _, _, _)
GScan(s, i, g, unit) ==
    IF i > Len(s) THEN [at |-> i, pos |-> g]
    ELSE LET n == GStep(g, s[i], unit) IN
         IF n.mode = "violation" THEN [at |-> i, pos |-> g, error |-> n.error]
         ELSE IF n.mode = "end" THEN [at |-> Len(s) + 1, pos |-> n]
         ELSE GScan(s, i + 1, n, unit)

GProgram(s) == GScan(s, 1, GPos("top", <<>>, ""), "program")
GExpr(s) == GScan(s, 1, GPos("operand", <<>>, ""), "expr")

(* What the grammar says of a stream: malformed at a token, complete, or a *)
(* well-formed beginning that needs more tokens.                           *)
GMalformed(r) == "error" \in DOMAIN r
GComplete(r) ==
    /\ ~GMalformed(r)
    /\ Len(r.pos.open) = 0
    /\ r.pos.mode \in {"top", "after_ident", "after_operand", "end"}
GNeedsMore(r) == ~GMalformed(r) /\ ~GComplete(r)

---------------------------------------------------------------------------
(* The inputs.  A stream is written in source order; the stack handed to   *)
(* the parser is its reverse, as lex builds it.                            *)

MaxLen == 4
MaxItems == 3
MaxOps == 2
MaxArgs == 2
MaxTextLen == 2
MaxNodes == 2

Streams(alphabet, n) == UNION {[1..k -> alphabet] : k \in 0..n}

(* The concatenation of the streams of ss, with the tokens sep between them *)
RECURSIVE Join(_, _)
Join(ss, sep) ==
    IF Len(ss) = 0 THEN <<>>
    ELSE IF Len(ss) = 1 THEN ss[1]
    ELSE ss[1] \o sep \o Join(Tail(ss), sep)

One == Number(F64(1, 0))
Two == Number(F64(2, 0))
Three == Number(F64(3, 0))

(* Programs: every stream of at most MaxLen tokens, and the programs of at *)
(* most MaxItems items, well formed and not, set side by side.             *)
Tokens == {Def, Extern, Delimiter, OpenParen, CloseParen, Comma, Ident("x"),
           Operator("+"), Operator(":"), One}

Items == {<<Def, Ident("f"), OpenParen, Ident("x"), Comma, Ident("y"), CloseParen,
            Ident("x"), Operator("+"), Ident("y")>>,
          <<Def, Ident("one"), OpenParen, CloseParen, One>>,
          <<Extern, Ident("sin"), OpenParen, Ident("x"), CloseParen>>,
          <<Delimiter>>,
          <<One>>,
          <<Ident("f"), OpenParen, One, Comma, Two, CloseParen, Operator("*"), Ident("x")>>,
          <<Extern, Ident("g"), OpenParen, One, CloseParen>>,
          <<Def, Ident("h"), OpenParen, Ident("x"), Comma, CloseParen, CloseParen, One>>,
          <<Def, Ident("f"), OpenParen, Ident("x"), CloseParen>>,
          <<One, Operator("+")>>}

Programs ==
    Streams(Tokens, MaxLen)
    \cup {Join(is, <<>>) : is \in UNION {[1..k -> Items] : k \in 0..MaxItems}}

(* Expressions: every stream of at most MaxLen tokens, the chains of at    *)
(* most MaxOps table operators between operands, and the calls of at most  *)
(* MaxArgs arguments.                                                      *)
ExprTokens == {OpenParen, CloseParen, Comma, Delimiter, Ident("x"), One,
               Operator("+"), Operator("*"), Operator(":")}

Operands == {<<One>>, <<Two>>, <<Three>>, <<Ident("x")>>,
             <<OpenParen, Two, Operator("-"), Three, CloseParen>>}

(* operands a[1..n+1] with the operators o[1..n] between them *)
RECURSIVE Chain(_, _)
Chain(a, o) ==
    IF Len(o) = 0 THEN a[1]
    ELSE a[1] \o <<Operator(o[1])>> \o Chain(Tail(a), Tail(o))

Chains == UNION {{Chain(a, o) : a \in [1..n + 1 -> Operands],
                                o \in [1..n -> DOMAIN operator_precedence]}
                 : n \in 0..MaxOps}

Arguments == {<<One>>, <<Ident("x")>>, <<One, Operator("+"), Ident("x")>>,
              <<Ident("g"), OpenParen, CloseParen>>}

Calls == {<<Ident("f"), OpenParen>> \o Join(as, <<Comma>>) \o <<CloseParen>> \o rest :
            as \in UNION {[1..k -> Arguments] : k \in 0..MaxArgs},
            rest \in {<<>>, <<Operator("+"), One>>, <<OpenParen>>}}

Expressions == Streams(ExprTokens, MaxLen) \cup Chains \cup Calls

(* Texts: every text of at most MaxTextLen characters, and three sources:  *)
(* one in the ASCII notation, two in the notation of TOKEN_RE.             *)
Chars == {"d", "e", "f", "x", "1", "0", ".", ";", "(", ")", ",", " ", "+", "#", "\n",
          SYM_DEF, SYM_EXTERN, SYM_OPPAR, SYM_CLPAR, SYM_COMMA, "A", "\f", "U+0663"}

AsciiSource == <<"d", "e", "f", " ", "f", "u", "n", "c", "(", "x", ")", " ",
                 "x", " ", "+", " ", "1", ";">>
SymbolSource == <<SYM_DEF, "a", "d", "d", SYM_OPPAR, "x", SYM_CLPAR, "x", "+",
                  "1", ".", "0", ";">>
ExternSource == <<SYM_EXTERN, "s", "i", "n", SYM_OPPAR, "x", SYM_COMMA, "y",
                  SYM_CLPAR, ";", " ", "#", "x", "\n", "1">>

Texts == Streams(Chars, MaxTextLen) \cup {AsciiSource, SymbolSource, ExternSource}

---------------------------------------------------------------------------
(* Spec: Parser::parse called on the stack of a program *)

Init ==
    /\ text = <<>>
    /\ tokens \in {reverse(p) : p \in Programs}
    /\ input = tokens
    /\ ast = <<>>
    /\ pc = "parse"
    /\ ret = <<>>
    /\ module = <<>>
    /\ named_values = <<>>
    /\ node = 1

Next == ParseFunction \/ ParseExtern \/ SkipDelimiter \/ ParseLambda \/ ParseReturn

Spec == Init /\ [][Next]_vars

---------------------------------------------------------------------------
(* SpecFn: one parsing function called on the stack of an expression; pc   *)
(* names the function that was called, tokens is the stack it was handed,  *)
(* input the stack as it left it.                                          *)

Called(fn, r) ==
    /\ pc = "call"
    /\ pc' = fn
    /\ input' = r.input
    /\ ret' = Returned(r)
    /\ UNCHANGED <<text, tokens, ast, codegen_vars>>

Call_parse_expr == Called("parse_expr", parse_expr(input))
Call_parse_primary == Called("parse_primary", parse_primary(input))
Call_parse_identifier == Called("parse_identifier", parse_identifier(input))
Call_parse_prototype == Called("parse_prototype", parse_prototype(input))

InitFn ==
    /\ text = <<>>
    /\ tokens \in {reverse(e) : e \in Expressions}
    /\ input = tokens
    /\ ast = <<>>
    /\ pc = "call"
    /\ ret = <<>>
    /\ module = <<>>
    /\ named_values = <<>>
    /\ node = 1

NextFn == \/ Call_parse_expr
          \/ Call_parse_primary
          \/ Call_parse_identifier
          \/ Call_parse_prototype

SpecFn == InitFn /\ [][NextFn]_vars

---------------------------------------------------------------------------
(* SpecStr: Parser::parse_str on a text: lex, then parse on its stack; a  *)
(* panic of lex ends the program (pc = "panic").                           *)

Lex ==
    /\ pc = "lex"
    /\ LET res == lex(text) IN
       IF res.ok
       THEN /\ tokens' = res.val
            /\ input' = res.val
            /\ pc' = "parse"
       ELSE /\ pc' = "panic"
            /\ UNCHANGED <<tokens, input>>
    /\ UNCHANGED <<text, ast, ret, codegen_vars>>

InitStr ==
    /\ text \in Texts
    /\ tokens = <<>>
    /\ input = <<>>
    /\ ast = <<>>
    /\ pc = "lex"
    /\ ret = <<>>
    /\ module = <<>>
    /\ named_values = <<>>
    /\ node = 1

NextStr == Lex \/ Next

SpecStr == InitStr /\ [][NextStr]_vars

---------------------------------------------------------------------------
(* codegen.rs.  The LLVM module is its functions in the order they were    *)
(* added, a function being known by its place among them, and the counter  *)
(* of its symbol table.  A function is its name, the number of its         *)
(* parameters, whether it has a body, and the value the body returns once  *)
(* build_return has ended it; while the body is built the symbol table of  *)
(* the function gives every value of it a name of its own.  A value is a   *)
(* term: a constant, a parameter of a function, or an instruction, under   *)
(* its name, over values.                                                  *)

UnknownVariable(name) == [type |-> "UnknownVariable", name |-> name]
UnknownOperator(op) == [type |-> "UnknownOperator", op |-> op]
UnknownFunction(callee) == [type |-> "UnknownFunction", callee |-> callee]
InvalidCall(callee, expected, found) ==
    [type |-> "InvalidCall", callee |-> callee, expected |-> expected, found |-> found]
InvalidFunction(name) == [type |-> "InvalidFunction", name |-> name]

const_float(v) == [kind |-> "const", value |-> v]
get_param(func, i) == [kind |-> "param", func |-> func, index |-> i]

(* The match on op of the Binary arm: the instruction and the name it is   *)
(* built under.                                                            *)
float_op == ("+" :> [opcode |-> "fadd", name |-> "tmpadd"])
            @@ ("-" :> [opcode |-> "fsub", name |-> "tmpsub"])
            @@ ("*" :> [opcode |-> "fmul", name |-> "tmpmul"])
            @@ ("/" :> [opcode |-> "fdiv", name |-> "tmpdiv"])

(* An operation on two constants as LLVM's builder folds it *)
fold(opcode, x, y) ==
    result(CASE opcode = "fadd" -> fadd(x, y)
             [] opcode = "fsub" -> fsub(x, y)
             [] opcode = "fmul" -> fmul(x, y)
             [] opcode = "fdiv" -> fdiv(x, y))

(* What a symbol table of LLVM does with a name it already holds: the      *)
(* counter at the first name, numbered from the table's counter on, that   *)
(* the table does not hold.  The number follows a point in the name of a   *)
(* function of the module (sep = "."), and the name itself in the name of  *)
(* a value of a function (sep = "").                                       *)
unique(held, last_unique, name, sep) ==
    CHOOSE n \in last_unique + 1..last_unique + Cardinality(held) + 1 :
        /\ name \o sep \o ToString(n) \notin held
        /\ \A k \in last_unique + 1..n - 1 : name \o sep \o ToString(k) \in held

(* The symbol table of a function that has no value yet: the names of its  *)
(* parameters, blocks and instructions, and its counter.                   *)
create_symtab == [names |-> {}, last_unique |-> 0]

(* set_name on a value of the function, and the name the builder gives an  *)
(* instruction: the name the value gets and the table that holds it.  An   *)
(* empty name is no name; a name already taken gets the next number of the *)
(* counter that gives a free name.                                         *)
set_name(symtab, name) ==
    LET taken == name \in symtab.names
        counter == IF taken THEN unique(symtab.names, symtab.last_unique, name, "")
                   ELSE symtab.last_unique
        given == IF taken THEN name \o ToString(counter) ELSE name IN
    [name |-> given,
     symtab |-> IF name = "" THEN symtab
                ELSE [names |-> symtab.names \cup {given}, last_unique |-> counter]]

(* Builder::build_float_add, _sub, _mul and _div: an operation on two      *)
(* constants is folded to the constant, and there is no instruction; any   *)
(* other is an instruction of the function, named in its symbol table.     *)
build_float(opcode, lhs, rhs, name, symtab) ==
    IF lhs.kind = "const" /\ rhs.kind = "const"
    THEN [val |-> const_float(fold(opcode, lhs.value, rhs.value)), symtab |-> symtab]
    ELSE [val |-> [kind |-> "inst", opcode |-> opcode,
                   name |-> set_name(symtab, name).name, lhs |-> lhs, rhs |-> rhs],
          symtab |-> set_name(symtab, name).symtab]

(* Builder::build_call: the call instruction, named as its result *)
build_call(func, args, name, symtab) ==
    [val |-> [kind |-> "call", name |-> set_name(symtab, name).name,
              func |-> func, args |-> args],
     symtab |-> set_name(symtab, name).symtab]

(* Context::create_module: no function, and the counter of the module's    *)
(* symbol table, from which the names it makes unique are numbered.        *)
create_module == [functions |-> <<>>, last_unique |-> 0]

(* the names the symbol table of the module holds *)
names(m) == {m.functions[i].name : i \in {j \in 1..Len(m.functions) : m.functions[j].named}}

(* Module::add_function: a declaration; an empty name is not entered in    *)
(* the symbol table; a name already taken is made unique, name.n with n    *)
(* the next number of the counter that gives a free name.                  *)
add_function(m, proto) ==
    LET taken == proto.name \in names(m)
        counter == IF taken THEN unique(names(m), m.last_unique, proto.name, ".")
                   ELSE m.last_unique
        name == IF taken THEN proto.name \o "." \o ToString(counter) ELSE proto.name IN
    [functions |-> Append(m.functions, [name |-> name, params |-> Len(proto.args),
                                        named |-> name # "", defined |-> FALSE,
                                        returns |-> <<>>]),
     last_unique |-> counter]

(* the loop of compile_proto that names the parameters, from parameter i   *)
(* on: the symbol table of the function                                    *)
RECURSIVE name_params(_, _, _)
name_params(symtab, proto, i) ==
    IF i > Len(proto.args) THEN symtab
    ELSE name_params(set_name(symtab, proto.args[i]).symtab, proto, i + 1)

(* Context::append_basic_block on a function of the module: the function   *)
(* has a body                                                              *)
append_basic_block(m, func) == [m EXCEPT !.functions[func].defined = TRUE]

(* Builder::build_return at the end of the entry block of the function *)
build_return(m, func, value) == [m EXCEPT !.functions[func].returns = <<value>>]

(* Module::get_function: the function entered under the name, 0 for None *)
get_function(m, name) ==
    LET found == {i \in 1..Len(m.functions) :
                     m.functions[i].named /\ m.functions[i].name = name} IN
    IF found = {} THEN 0 ELSE CHOOSE i \in found : TRUE

(* FunctionValue::delete: the function leaves the module *)
delete(m, func) ==
    [functions |-> [i \in 1..Len(m.functions) - 1 |->
                       IF i < func THEN m.functions[i] ELSE m.functions[i + 1]],
     last_unique |-> m.last_unique]

(* HashMap::insert *)
insert(map, key, value) == (key :> value) @@ map

(* What codegen_expr returns, with the symbol table of the function that   *)
(* is being built as the builder left it.                                  *)
built(b) == [ok |-> TRUE, val |-> b.val, symtab |-> b.symtab]

RECURSIVE codegen_expr(_, _, _, _), codegen_args(_, _, _, _, _, _)
(* the loop over args of the Call arm, from argument i on *)
codegen_args(args, i, gened_args, nv, m, symtab) ==
    IF i > Len(args) THEN [ok |-> TRUE, val |-> gened_args, symtab |-> symtab]
    ELSE LET arg == codegen_expr(args[i], nv, m, symtab) IN
         IF ~arg.ok THEN arg
         ELSE codegen_args(args, i + 1, Append(gened_args, arg.val), nv, m, arg.symtab)

(* codegen_expr with the builder at the end of the entry block of a        *)
(* function of m whose symbol table is symtab                              *)
codegen_expr(expr, nv, m, symtab) ==
    IF expr.type = "Literal"
    THEN [ok |-> TRUE, val |-> const_float(expr.value), symtab |-> symtab]
    ELSE IF expr.type = "Variable"
    THEN IF expr.name \in DOMAIN nv
         THEN [ok |-> TRUE, val |-> nv[expr.name], symtab |-> symtab]
         ELSE [ok |-> FALSE, err |-> UnknownVariable(expr.name)]
    ELSE IF expr.type = "Binary"
    THEN LET lhs == codegen_expr(expr.lhs, nv, m, symtab) IN
         IF ~lhs.ok THEN lhs
         ELSE LET rhs == codegen_expr(expr.rhs, nv, m, lhs.symtab) IN
              IF ~rhs.ok THEN rhs
              ELSE IF expr.op \in DOMAIN float_op
              THEN built(build_float(float_op[expr.op].opcode, lhs.val, rhs.val,
                                     float_op[expr.op].name, rhs.symtab))
              ELSE [ok |-> FALSE, err |-> UnknownOperator(expr.op)]
    ELSE LET func == get_function(m, expr.callee) IN
         IF func = 0 THEN [ok |-> FALSE, err |-> UnknownFunction(expr.callee)]
         ELSE IF m.functions[func].params # Len(expr.args)
         THEN [ok |-> FALSE,
               err |-> InvalidCall(expr.callee, m.functions[func].params,
                                   Len(expr.args))]
         ELSE LET gened_args == codegen_args(expr.args, 1, <<>>, nv, m, symtab) IN
              IF ~gened_args.ok THEN gened_args
              ELSE built(build_call(func, gened_args.val, "tmp", gened_args.symtab))

(* the parameters a value is built from *)
RECURSIVE params_used(_)
params_used(v) ==
    IF v.kind = "const" THEN {}
    ELSE IF v.kind = "param" THEN {v}
    ELSE IF v.kind = "inst" THEN params_used(v.lhs) \cup params_used(v.rhs)
    ELSE UNION {params_used(v.args[i]) : i \in 1..Len(v.args)}

(* The name is one LLVM reserves for its intrinsics *)
is_intrinsic(name) == Len(name) >= 5 /\ SubSeq(name, 1, 5) = "llvm."

(* The intrinsics of LLVM described here, each with the number of its      *)
(* operands: every one is overloaded on one floating point type, that of   *)
(* its result and of all its operands, and is named llvm.sqrt.f64 and so   *)
(* on at the type f64.                                                     *)
Intrinsics == [name \in {"llvm.sqrt", "llvm.sin", "llvm.cos", "llvm.exp", "llvm.exp2",
                         "llvm.log", "llvm.log10", "llvm.log2", "llvm.fabs",
                         "llvm.floor", "llvm.ceil", "llvm.trunc", "llvm.rint",
                         "llvm.nearbyint", "llvm.round"} |-> 1]
              @@ [name \in {"llvm.pow", "llvm.copysign", "llvm.minnum",
                            "llvm.maxnum"} |-> 2]
              @@ [name \in {"llvm.fma", "llvm.fmuladd"} |-> 3]

(* Words that begin the name of no intrinsic of LLVM after llvm. *)
Plain == {"", "x", "y", "f", "g", "h", "k", "foo", "bar"}

(* What stands in a reserved name between llvm. and the next point *)
component(name) ==
    LET points == {i \in 6..Len(name) : SubSeq(name, i, i) = "."}
        end == IF points = {} THEN Len(name) + 1
               ELSE CHOOSE i \in points : \A j \in points : i <= j IN
    SubSeq(name, 6, end - 1)

(* The intrinsic a function of this name is: the one whose name is the     *)
(* name, or the name up to one of its points; "" for none.  Of a reserved  *)
(* name that begins as neither an intrinsic described here nor a plain     *)
(* word nothing is said.                                                   *)
get_intrinsic_id(name) ==
    IF ~is_intrinsic(name) THEN ""
    ELSE CASE "llvm." \o component(name) \in DOMAIN Intrinsics -> "llvm." \o component(name)
           [] component(name) \in Plain -> ""

(* The verifier on a call of callee: an intrinsic has no body, has the     *)
(* operands of its description, and is named as its type requires.         *)
call_verified(callee) ==
    get_intrinsic_id(callee.name) # "" =>
        /\ ~callee.defined
        /\ callee.params = Intrinsics[get_intrinsic_id(callee.name)]
        /\ callee.name = get_intrinsic_id(callee.name) \o ".f64"

(* the verifier on every call a value is built from *)
RECURSIVE calls_verified(_, _)
calls_verified(m, v) ==
    IF v.kind = "inst" THEN calls_verified(m, v.lhs) /\ calls_verified(m, v.rhs)
    ELSE IF v.kind = "call"
    THEN /\ call_verified(m.functions[v.func])
         /\ \A i \in 1..Len(v.args) : calls_verified(m, v.args[i])
    ELSE TRUE

(* FunctionValue::verify on a function of m whose body returns: the LLVM   *)
(* verifier rejects a function with a body under a reserved name, an       *)
(* instruction that refers to an argument of another function, and a call  *)
(* of an intrinsic that is not as LLVM describes it.                       *)
verify(m, func) ==
    /\ ~is_intrinsic(m.functions[func].name)
    /\ \A p \in params_used(m.functions[func].returns[1]) : p.func = func
    /\ calls_verified(m, m.functions[func].returns[1])

(* the loop of compile_fn that binds the parameters, from parameter i on *)
RECURSIVE bind_params(_, _, _, _)
bind_params(nv, proto, func, i) ==
    IF i > Len(proto.args) THEN nv
    ELSE bind_params(insert(nv, proto.args[i], get_param(func, i)), proto, func, i + 1)

(* Codegen::codegen as a state machine: pc = "codegen" is the head of the  *)
(* for loop over ast (the ast_nodes it was handed), node the place of the  *)
(* node it is at.                                                          *)

CompileProto ==
    /\ pc = "codegen" /\ node <= Len(ast) /\ ast[node].type = "Extern"
    /\ module' = add_function(module, ast[node].prototype)
    /\ node' = node + 1
    /\ UNCHANGED <<text, tokens, input, ast, pc, ret, named_values>>

CompileFn ==
    /\ pc = "codegen" /\ node <= Len(ast) /\ ast[node].type = "Function"
    /\ LET proto == ast[node].function.prototype
           llvm_func == Len(module.functions) + 1
           entry == append_basic_block(add_function(module, proto), llvm_func)
           symtab == set_name(name_params(create_symtab, proto, 1), "entry").symtab
           bound == bind_params(named_values, proto, llvm_func, 1)
           body == codegen_expr(ast[node].function.body, bound, entry, symtab)
           returned == build_return(entry, llvm_func, body.val) IN
       /\ named_values' = bound
       /\ IF ~body.ok
          THEN /\ module' = entry
               /\ ret' = <<body>>
               /\ pc' = "return"
               /\ node' = node
          ELSE IF verify(returned, llvm_func)
          THEN /\ module' = returned
               /\ node' = node + 1
               /\ UNCHANGED <<pc, ret>>
          ELSE /\ module' = delete(returned, llvm_func)
               /\ ret' = <<[ok |-> FALSE, err |-> InvalidFunction(proto.name)]>>
               /\ pc' = "return"
               /\ node' = node
    /\ UNCHANGED <<text, tokens, input, ast>>

CodegenReturn ==
    /\ pc = "codegen" /\ node > Len(ast)
    /\ ret' = <<[ok |-> TRUE, val |-> <<>>]>>
    /\ pc' = "return"
    /\ UNCHANGED <<text, tokens, input, ast, codegen_vars>>

(* Node sequences: at most MaxNodes nodes, each an extern or a function    *)
(* whose body may name its own parameters, those of others, and none;      *)
(* among the names are one a builder gives an instruction, reserved ones   *)
(* and an intrinsic, declared as LLVM describes it and not.                *)
Protos == {Prototype("f", <<"x">>), Prototype("g", <<>>),
           Prototype("h", <<"x", "y">>), Prototype("", <<>>),
           Prototype("k", <<"tmpadd", "x">>), Prototype("llvm.x", <<>>)}

Bodies == {Variable("x"), Variable("y"), Literal(F64(1, 0)),
           Binary("+", Variable("x"), Variable("y")),
           Binary("+", Variable("x"), Binary("+", Variable("x"), Literal(F64(1, 0)))),
           Binary("%", Variable("x"), Literal(F64(1, 0))),
           Binary("-", Literal(F64(1, 0)),
                  Binary("/", Literal(F64(1, 0)), Literal(F64(0, 0)))),
           Call("f", <<Variable("x")>>), Call("f", <<>>), Call("k", <<>>),
           Call("f.1", <<Variable("x")>>),
           Call("llvm.sqrt.f64", <<Literal(F64(1, 0))>>),
           Call("llvm.sin.f64", <<>>)}

Nodes == {ASTFunction(Function(p, b)) : p \in Protos, b \in Bodies}
         \cup {ASTExtern(Prototype("f", <<"x">>)), ASTExtern(Prototype("g", <<>>)),
               ASTExtern(Prototype("llvm.sqrt.f64", <<"x">>)),
               ASTExtern(Prototype("llvm.sin.f64", <<>>))}

NodeSeqs == Streams(Nodes, MaxNodes)

(* SpecGen: Codegen::codegen called on a sequence of nodes, on a Codegen   *)
(* fresh from Codegen::new                                                 *)
InitGen ==
    /\ text = <<>>
    /\ tokens = <<>>
    /\ input = <<>>
    /\ ast \in NodeSeqs
    /\ pc = "codegen"
    /\ ret = <<>>
    /\ module = create_module
    /\ named_values = <<>>
    /\ node = 1

NextGen == CompileProto \/ CompileFn \/ CodegenReturn

SpecGen == InitGen /\ [][NextGen]_vars

---------------------------------------------------------------------------
(* The properties.  They read a stack in source order.                     *)

Source == reverse(tokens)
Consumed == Len(tokens) - Len(input)
Result == ret[1]
ReturnedOk(v) == ret = <<[ok |-> TRUE, val |-> v]>>
ReturnedErr(e) == ret = <<[ok |-> FALSE, err |-> e]>>

IsTableOperator(t) == t.type = "Operator" /\ t.str \in DOMAIN operator_precedence
IsSimpleOperand(t) == t.type \in {"Number", "Ident"}
SimpleAst(t) == IF t.type = "Number" THEN Literal(t.num) ELSE Variable(t.str)

(* The operand that starts at token i of s: a number, a variable, or a     *)
(* parenthesised u op v of two of them; ast is what it stands for, next    *)
(* the index of the token after it (0: no such operand starts at i).       *)
OperandAt(s, i) ==
    IF i > Len(s) THEN [next |-> 0]
    ELSE IF IsSimpleOperand(s[i]) THEN [next |-> i + 1, ast |-> SimpleAst(s[i])]
    ELSE IF /\ i + 4 <= Len(s)
            /\ s[i] = OpenParen
            /\ IsSimpleOperand(s[i + 1])
            /\ IsTableOperator(s[i + 2])
            /\ IsSimpleOperand(s[i + 3])
            /\ s[i + 4] = CloseParen
         THEN [next |-> i + 5,
               ast |-> Binary(s[i + 2].str, SimpleAst(s[i + 1]), SimpleAst(s[i + 3]))]
    ELSE [next |-> 0]

(* s is a op1 b op2 c and nothing more: the three operands and the two     *)
(* operators, or ok = FALSE.                                               *)
ThreeOperands(s) ==
    LET a == OperandAt(s, 1)
        b == IF a.next = 0 THEN a ELSE OperandAt(s, a.next + 1)
        c == IF b.next = 0 THEN b ELSE OperandAt(s, b.next + 1) IN
    IF /\ a.next # 0 /\ b.next # 0 /\ c.next = Len(s) + 1
       /\ IsTableOperator(s[a.next]) /\ IsTableOperator(s[b.next])
    THEN [ok |-> TRUE, a |-> a.ast, b |-> b.ast, c |-> c.ast,
          op1 |-> s[a.next].str, op2 |-> s[b.next].str]
    ELSE [ok |-> FALSE]

(* C1: parse_expr on a op1 b op2 c, with op1 and op2 of one binding power, *)
(* returns Binary(op2, Binary(op1, a, b), c): equal-precedence chains nest *)
(* to the left, as 1 - 2 - 3 does.                                         *)
C1_LeftAssociative ==
    pc = "parse_expr" =>
        LET t == ThreeOperands(Source) IN
        (t.ok /\ operator_precedence[t.op1] = operator_precedence[t.op2])
            => ReturnedOk(Binary(t.op2, Binary(t.op1, t.a, t.b), t.c))

(* C2: parse_expr honours precedence wherever the operators stand: with    *)
(* hi binding tighter than lo, a lo b hi c is Binary(lo, a, Binary(hi, b,  *)
(* c)) and a hi b lo c is Binary(lo, Binary(hi, a, b), c); a parenthesised *)
(* sub-expression is one operand.                                          *)
C2_PrecedenceHonoured ==
    pc = "parse_expr" =>
        LET t == ThreeOperands(Source) IN
        /\ (t.ok /\ operator_precedence[t.op1] < operator_precedence[t.op2])
              => ReturnedOk(Binary(t.op1, t.a, Binary(t.op2, t.b, t.c)))
        /\ (t.ok /\ operator_precedence[t.op1] > operator_precedence[t.op2])
              => ReturnedOk(Binary(t.op2, Binary(t.op1, t.a, t.b), t.c))

(* C3: lex classifies by the ASCII lexemes: def gives Def, ( gives         *)
(* OpenParen, ) gives CloseParen, a comma gives Comma, ; gives Delimiter,  *)
(* none of them is an Operator or an Ident, and "def func(x) x + 1;" gives *)
(* Def, Ident(func), OpenParen, Ident(x), CloseParen, Ident(x),            *)
(* Operator(+), Number(1.0), Delimiter in source order.                    *)
C3_LexCategories ==
    pc # "lex" =>
        /\ text = <<";">> => Source = <<Delimiter>>
        /\ text = <<"(">> => Source = <<OpenParen>>
        /\ text = <<")">> => Source = <<CloseParen>>
        /\ text = <<",">> => Source = <<Comma>>
        /\ text = AsciiSource =>
              Source = <<Def, Ident("func"), OpenParen, Ident("x"), CloseParen,
                         Ident("x"), Operator("+"), One, Delimiter>>
        /\ \A i \in 1..Len(Source) :
              /\ Source[i].type = "Operator" => Source[i].str \notin {";", "(", ")", ","}
              /\ Source[i].type = "Ident" => Source[i].str \notin {"def", "extern"}

(* The stream p is Ident OpenParen [Ident {Comma Ident}] CloseParen *)
IsPrototype(p) ==
    /\ Len(p) >= 3
    /\ p[1].type = "Ident"
    /\ p[2] = OpenParen
    /\ p[Len(p)] = CloseParen
    /\ Len(p) > 3 => Len(p) % 2 = 0
    /\ \A i \in 3..Len(p) - 1 :
          IF i % 2 = 1 THEN p[i].type = "Ident" ELSE p[i] = Comma

(* Its name and its parameter names in source order *)
PrototypeOf(p) ==
    Prototype(p[1].str, [j \in 1..(Len(p) - 2) \div 2 |-> p[2 * j + 1].str])

(* C4: parse_prototype accepts exactly Ident OpenParen [Ident {Comma       *)
(* Ident}] CloseParen: it returns Ok only when the tokens it consumed have *)
(* that shape, with the name and the parameters in source order, and it    *)
(* returns Ok whenever the stream starts with that shape.                  *)
C4_PrototypeGrammar ==
    pc = "parse_prototype" =>
        /\ Result.ok =>
              /\ IsPrototype(SubSeq(Source, 1, Consumed))
              /\ Result.val = PrototypeOf(SubSeq(Source, 1, Consumed))
        /\ (\E k \in 1..Len(Source) : IsPrototype(SubSeq(Source, 1, k))) => Result.ok

(* One round of the loop of parse, from its head: what it consumed, in     *)
(* source order, and what it did to ast.                                   *)
ItemTokens == reverse(SubSeq(input, Len(input') + 1, Len(input)))
OneNodeMore == /\ Len(ast') = Len(ast) + 1
               /\ SubSeq(ast', 1, Len(ast)) = ast
NewNode == ast'[Len(ast')]

C5_Round ==
    pc = "parse" =>
        IF Len(input) = 0
        THEN pc' = "return" /\ ret' = <<[ok |-> TRUE, val |-> ast]>>
        ELSE IF last(input) = Delimiter
        THEN ast' = ast /\ ItemTokens = <<Delimiter>> /\ pc' = "parse"
        ELSE pc' = "parse" =>
              /\ OneNodeMore
              /\ CASE last(input) = Def ->
                        /\ NewNode.type = "Function"
                        /\ NewNode.function.prototype.name = ItemTokens[2].str
                   [] last(input) = Extern ->
                        /\ NewNode.type = "Extern"
                        /\ NewNode.prototype.name = ItemTokens[2].str
                   [] OTHER ->
                        LET e == parse_expr(reverse(ItemTokens)) IN
                        /\ e.ok /\ e.input = <<>>
                        /\ NewNode = ASTFunction(Function(Prototype("", <<>>), e.val))

(* C5: every round of parse that accepts a def item, an extern item or a   *)
(* bare expression adds exactly one node after the nodes of the items      *)
(* before it (so the nodes stand in source order), a Delimiter adds none,  *)
(* a bare expression e becomes the Function named "" with no parameters    *)
(* and body e, and the vector returned at the end of the stream is the     *)
(* vector so built.                                                        *)
C5_OneNodePerItem == [][C5_Round]_vars

C5_Witness ==
    /\ pc = "return"
    /\ Source = <<Extern, Ident("sin"), OpenParen, Ident("x"), CloseParen,
                  Delimiter, One>>
    /\ ReturnedOk(<<ASTExtern(Prototype("sin", <<"x">>)),
                    ASTFunction(Function(Prototype("", <<>>), Literal(F64(1, 0))))>>)

(* C6: parse fails on the first malformed construct: a stream that leaves  *)
(* the grammar at some token is answered with an error and no node, the    *)
(* error is the one of that token, and nothing after that token is         *)
(* consumed.                                                               *)
C6_FirstErrorAborts ==
    pc = "return" =>
        LET g == GProgram(Source) IN
        GMalformed(g) =>
            /\ ReturnedErr(g.error)
            /\ ast = <<>>
            /\ Consumed <= g.at

(* C7: parse_expr reports an operator that is not in the table, found      *)
(* directly after a complete operand, as InvalidOperator carrying its      *)
(* symbol: it does so when the grammar's first objection to the stream is  *)
(* that operator, and when the tokens before the operator are an           *)
(* expression of their own; it never returns Ok with such an operator next *)
(* in the stream; and the symbol it reports is the one next in the stream. *)
C7_InvalidOperatorReported ==
    pc = "parse_expr" =>
        LET g == GExpr(Source) IN
        /\ (GMalformed(g) /\ g.error.type = "InvalidOperator") => ReturnedErr(g.error)
        /\ \A k \in 1..Len(Source) - 1 :
              LET t == Source[k + 1]
                  e == parse_expr(reverse(SubSeq(Source, 1, k))) IN
              (/\ t.type = "Operator" /\ t.str \notin DOMAIN operator_precedence
               /\ e.ok /\ e.input = <<>>)
                  => ReturnedErr(InvalidOperator(t.str))
        /\ Result.ok =>
              ~(/\ Len(input) > 0 /\ last(input).type = "Operator"
                /\ last(input).str \notin DOMAIN operator_precedence)
        /\ (~Result.ok /\ Result.err.type = "InvalidOperator") =>
              /\ Result.err.op \notin DOMAIN operator_precedence
              /\ is_last(input, Operator(Result.err.op))

C7_Witness ==
    /\ pc = "parse_expr"
    /\ Source = <<Ident("x"), Operator(":"), One>>
    /\ ReturnedErr(InvalidOperator(":"))
    /\ input = <<One, Operator(":")>>

(* C8: when the stream ends where the grammar requires another token       *)
(* (after a binary operator, inside an open parenthesis, argument list or  *)
(* parameter list, after def or extern, after the prototype of a def),     *)
(* parse returns UnexpectedEOF and no other error.                         *)
C8_UnexpectedEOF ==
    (pc = "return" /\ GNeedsMore(GProgram(Source))) => ReturnedErr(UnexpectedEOF)

C8_Witness ==
    /\ pc = "return"
    /\ Source = <<Ident("x"), OpenParen, One, Operator("+")>>
    /\ ReturnedErr(UnexpectedEOF)

(* C9: parse_primary on a token t that is no Number, Ident or OpenParen    *)
(* fails with InvalidToken(t) and leaves t on the stack; so parse_expr     *)
(* does wherever the grammar's first objection is the token at the place   *)
(* of an operand, as at the CloseParen of ( 1 + ).                         *)
C9_InvalidTokenAtPrimary ==
    /\ (/\ pc = "parse_primary" /\ Len(tokens) > 0
        /\ last(tokens).type \notin {"Number", "Ident", "OpenParen"})
          => ReturnedErr(InvalidToken(last(tokens))) /\ input = tokens
    /\ pc = "parse_expr" =>
          LET g == GExpr(Source) IN
          (GMalformed(g) /\ g.pos.mode = "operand") =>
              /\ ReturnedErr(InvalidToken(Source[g.at]))
              /\ is_last(input, Source[g.at])
              /\ Consumed = g.at - 1

C9_Witness ==
    /\ pc = "parse_expr"
    /\ Source = <<OpenParen, One, Operator("+"), CloseParen>>
    /\ ReturnedErr(InvalidToken(CloseParen))
    /\ input = <<CloseParen>>

(* args[j..] are the expressions that stand on the stack in, each followed *)
(* by a Comma but the last, which is followed by a CloseParen              *)
RECURSIVE ArgsAre(_, _, _)
ArgsAre(in, args, j) ==
    IF Len(args) = 0 THEN is_last(in, CloseParen)
    ELSE LET e == parse_expr(in) IN
         /\ e.ok
         /\ e.val = args[j]
         /\ IF j = Len(args) THEN is_last(e.input, CloseParen)
            ELSE is_last(e.input, Comma) /\ ArgsAre(pop(e.input), args, j + 1)

(* The index of the CloseParen that matches the OpenParen at token 2 of s, *)
(* when the grammar allows s up to it (0 when it does not)                 *)
CallEnd(s) ==
    LET ends == {k \in 3..Len(s) :
                    LET g == GExpr(SubSeq(s, 1, k)) IN
                    GComplete(g) /\ g.pos.mode = "after_operand"} IN
    IF ends = {} THEN 0 ELSE CHOOSE k \in ends : \A m \in ends : k <= m

(* C10: parse_identifier on Ident(f) OpenParen returns, when the call is   *)
(* well formed, Call(f, args) with args the comma-separated expressions up *)
(* to the matching CloseParen in source order (none for f ( )), and        *)
(* consumes up to that CloseParen and no further; on Ident(f) before       *)
(* anything else it returns Variable(f) and consumes the Ident alone.      *)
C10_CallOrVariable ==
    (pc = "parse_identifier" /\ Len(Source) > 0 /\ Source[1].type = "Ident") =>
        IF Len(Source) >= 2 /\ Source[2] = OpenParen
        THEN /\ CallEnd(Source) # 0 => Result.ok /\ Consumed = CallEnd(Source)
             /\ Result.ok =>
                   /\ Result.val.type = "Call"
                   /\ Result.val.callee = Source[1].str
                   /\ ArgsAre(SubSeq(tokens, 1, Len(tokens) - 2), Result.val.args, 1)
                   /\ Source[Consumed] = CloseParen
                   /\ Source[3] = CloseParen => Result.val.args = <<>> /\ Consumed = 3
        ELSE ReturnedOk(Variable(Source[1].str)) /\ Consumed = 1

C10_Witness ==
    /\ pc = "parse_identifier"
    /\ Source = <<Ident("f"), OpenParen, One, Operator("+"), Ident("x"), Comma,
                  Ident("g"), OpenParen, CloseParen, CloseParen, Operator("+"), One>>
    /\ ReturnedOk(Call("f", <<Binary("+", Literal(F64(1, 0)), Variable("x")),
                              Call("g", <<>>)>>))
    /\ input = <<One, Operator("+")>>

(* The canonical infix form of an expression, as a token stream in source  *)
(* order: parentheses only around a left operand that binds looser than    *)
(* its parent and around a right operand that does not bind tighter (the   *)
(* operators being left-associative).                                      *)
RECURSIVE canonical(_), canonical_args(_, _)
canonical_args(args, i) ==
    IF i > Len(args) THEN <<>>
    ELSE (IF i > 1 THEN <<Comma>> ELSE <<>>) \o canonical(args[i])
         \o canonical_args(args, i + 1)

canonical(e) ==
    IF e.type = "Literal" THEN <<Number(e.value)>>
    ELSE IF e.type = "Variable" THEN <<Ident(e.name)>>
    ELSE IF e.type = "Call"
    THEN <<Ident(e.callee), OpenParen>> \o canonical_args(e.args, 1) \o <<CloseParen>>
    ELSE LET p == operator_precedence[e.op]
             wrap(x, needed) == IF needed THEN <<OpenParen>> \o canonical(x) \o <<CloseParen>>
                                ELSE canonical(x)
             looser(x) == x.type = "Binary" /\ operator_precedence[x.op] < p
             same(x) == x.type = "Binary" /\ operator_precedence[x.op] = p IN
         wrap(e.lhs, looser(e.lhs)) \o <<Operator(e.op)>>
         \o wrap(e.rhs, looser(e.rhs) \/ same(e.rhs))

(* C11: the AST that parse_expr returns, printed in the canonical infix    *)
(* form and parsed again by parse_expr, comes back structurally identical, *)
(* with the whole printed stream consumed.                                 *)
C11_ParsePrintParse ==
    (pc = "parse_expr" /\ Result.ok) =>
        LET again == parse_expr(reverse(canonical(Result.val))) IN
        again.ok /\ again.val = Result.val /\ again.input = <<>>

(* At the head of the loop one arm of the match, or the exit, applies *)
C12_ArmApplies ==
    \/ Len(input) = 0
    \/ is_last(input, Def) \/ is_last(input, Extern) \/ is_last(input, Delimiter)
    \/ last(input) \notin {Def, Extern, Delimiter}

(* parse_primary on the stack as it stands takes a token or fails *)
C12_PrimaryConsumes ==
    LET r == parse_primary(input) IN r.ok => Len(r.input) < Len(input)

(* A step of parse from the head of its loop: back at the head it has      *)
(* taken a token, and returning Ok it leaves the stack empty.              *)
C12_Round ==
    pc = "parse" =>
        /\ C12_ArmApplies
        /\ C12_PrimaryConsumes
        /\ pc' = "parse" => Len(input') < Len(input)
        /\ pc' = "return" => ~ret'[1].ok \/ input' = <<>>

(* C12: parse terminates on every token stream: every round of its loop    *)
(* and every call of parse_primary removes a token or returns an error, so *)
(* the stack gets strictly shorter from round to round until parse         *)
(* returns, and it returns Ok only when the stack is empty.                *)
C12_Terminates == [][C12_Round]_vars

C12_Witness ==
    /\ pc = "return"
    /\ Source = <<Def, Ident("one"), OpenParen, CloseParen, One, Delimiter, One>>
    /\ ReturnedOk(<<ASTFunction(Function(Prototype("one", <<>>), Literal(F64(1, 0)))),
                    ASTFunction(Function(Prototype("", <<>>), Literal(F64(1, 0))))>>)
    /\ input = <<>>

(* C13: in codegen a Variable of a function body resolves only to a        *)
(* parameter of that function: when the body, compiled with the function's *)
(* own parameters alone bound, fails with UnknownVariable(name), then      *)
(* compile_fn on it fails with UnknownVariable(name) and codegen returns   *)
(* that error, whatever the functions compiled before it had as            *)
(* parameters.                                                             *)
C13_Round ==
    (pc = "codegen" /\ node <= Len(ast) /\ ast[node].type = "Function") =>
        LET proto == ast[node].function.prototype
            llvm_func == Len(module.functions) + 1
            entry == append_basic_block(add_function(module, proto), llvm_func)
            symtab == set_name(name_params(create_symtab, proto, 1), "entry").symtab
            own == bind_params(<<>>, proto, llvm_func, 1)
            body == codegen_expr(ast[node].function.body, own, entry, symtab) IN
        (~body.ok /\ body.err.type = "UnknownVariable") =>
            pc' = "return" /\ ret' = <<[ok |-> FALSE, err |-> body.err]>>

C13_OwnParametersOnly == [][C13_Round]_vars
====
